---- MODULE Spec2Model ----
(***************************************************************************)
(* Route optimisation engine of src/main.rs: great-circle distance, the    *)
(* nearest-neighbour construction, the 2-opt local search and the          *)
(* RouteManager that moves stops between routes.                           *)
(*                                                                         *)
(* Three specifications share the variables:                               *)
(*   Spec        the RouteManager and its operations, from new();          *)
(*   RouteSpec   one Route, drawn from the sample inputs, under repeated   *)
(*               build_nearest_neighbor / two_opt / optimize calls;        *)
(*   TwoOptSpec  one two_opt call, one loop step at a time, for            *)
(*               termination.                                              *)
(*                                                                         *)
(* Distances are whole metres: haversine_meters on the sample coordinates, *)
(* rounded up (rounding up keeps the triangle inequality of the            *)
(* great-circle metric).  An Option is a sequence: <<>> is None, <<x>> is  *)
(* Some(x).  Indices i, k are the code's 0-based indices.                  *)
(***************************************************************************)
EXTENDS Integers, Sequences, FiniteSets, TLC

VARIABLES
    routes,   \* RouteManager.routes: a sequence of Route records
    last,     \* the last call: its name, arguments, result and the routes before it
    frame     \* the locals of the two_opt call in progress (TwoOptSpec)

vars == <<routes, last, frame>>

----------------------------------------------------------------------------
(* Bounds *)

\* sample stops 1..NumStops are the inputs of RouteSpec
NumStops == 6
\* sample stops 1..LoopStops are the inputs of TwoOptSpec
LoopStops == 5
\* the manager holds at most MaxRoutes routes, with ids 1..MaxRoutes
MaxRoutes == 2
\* the manager holds at most MaxHeld stops, with ids 1..MaxHeld
MaxHeld == 2

----------------------------------------------------------------------------
(* Stop, and the inputs *)

Stop(id, lat, lon) == [id |-> id, lat |-> lat, lon |-> lon]

\* Sample stops on a one-degree grid, three to a parallel, from (0,0):
\*   1 (0,0)  2 (0,1)  3 (0,2)  4 (1,0)  5 (1,1)  6 (1,2)  7 (2,0) ...
SampleStop(id) == Stop(id, (id - 1) \div 3, (id - 1) % 3)

\* The sample depot, id 0 as in main(), at (0,0).
SampleDepot == Stop(0, 0, 0)

DepotChoices == {<<>>, <<SampleDepot>>}

\* The depot of the routes the manager is given: a route with an odd id
\* starts from the sample depot, as the routes of main() do, and a route
\* with an even id has none.
DepotOf(id) == IF id % 2 = 1 THEN <<SampleDepot>> ELSE <<>>

Route(id, depot) == [id |-> id, stops |-> <<>>, depot |-> depot]

----------------------------------------------------------------------------
(* Distance *)

\* haversine_meters(a, b) for latitudes 0..2 and a longitude difference of
\* 0..2 degrees, in metres rounded up.  The formula reads only the two
\* latitudes and the longitude difference, and is symmetric.
haversine_meters(a_lat, a_lon, b_lat, b_lon) ==
    LET lo   == IF a_lat < b_lat THEN a_lat ELSE b_lat
        hi   == IF a_lat < b_lat THEN b_lat ELSE a_lat
        dlon == IF b_lon < a_lon THEN a_lon - b_lon ELSE b_lon - a_lon
        row  == CASE lo = 0 /\ hi = 0 -> <<0, 111195, 222390>>
                  [] lo = 0 /\ hi = 1 -> <<111195, 157250, 248630>>
                  [] lo = 0 /\ hi = 2 -> <<222390, 248630, 314475>>
                  [] lo = 1 /\ hi = 1 -> <<0, 111178, 222356>>
                  [] lo = 1 /\ hi = 2 -> <<111195, 157226, 248569>>
                  [] lo = 2 /\ hi = 2 -> <<0, 111128, 222255>>
    IN  row[dlon + 1]

\* f64::INFINITY: above every distance
INFINITY == 2147483647

----------------------------------------------------------------------------
(* Route metrics *)

RECURSIVE path_sum(_, _, _)
\* the for loop of total_distance_meters from stop j on, prev_opt being the
\* Option of the previous point
path_sum(stops, prev_opt, j) ==
    IF j > Len(stops) THEN 0
    ELSE LET s   == stops[j]
             leg == IF prev_opt # <<>>
                    THEN haversine_meters(prev_opt[1].lat, prev_opt[1].lon, s.lat, s.lon)
                    ELSE 0
         IN  leg + path_sum(stops, <<s>>, j + 1)

total_distance_meters(r) ==
    LET n    == Len(r.stops)
        back == IF r.depot # <<>> /\ n > 0
                THEN haversine_meters(r.stops[n].lat, r.stops[n].lon,
                                      r.depot[1].lat, r.depot[1].lon)
                ELSE 0
    IN  path_sum(r.stops, r.depot, 1) + back

----------------------------------------------------------------------------
(* Nearest-neighbour construction *)

\* Vec::remove(idx): the sequence without its element at 0-based idx
remove(s, idx) == SubSeq(s, 1, idx) \o SubSeq(s, idx + 2, Len(s))

nearer_or_equal(d, best_dist) == d <= best_dist

\* `d < best_dist`: a candidate replaces the best only if strictly nearer
nearer(d, best_dist) == d < best_dist

RECURSIVE nearest_scan(_, _, _, _, _)
\* the scan over remaining from 0-based index idx: the final best_idx
nearest_scan(remaining, current, idx, best_idx, best_dist) ==
    IF idx >= Len(remaining) THEN best_idx
    ELSE LET s == remaining[idx + 1]
             d == haversine_meters(current.lat, current.lon, s.lat, s.lon)
         IN  IF nearer(d, best_dist)
             THEN nearest_scan(remaining, current, idx + 1, idx, d)
             ELSE nearest_scan(remaining, current, idx + 1, best_idx, best_dist)

RECURSIVE nearest_loop(_, _, _)
\* the loop of build_nearest_neighbor: the final self.stops
nearest_loop(remaining, current, out) ==
    IF remaining = <<>> THEN out
    ELSE LET best_idx == nearest_scan(remaining, current, 0, 0, INFINITY)
             next     == remaining[best_idx + 1]
         IN  nearest_loop(remove(remaining, best_idx), next, Append(out, next))

build_nearest_neighbor(r) ==
    IF r.stops = <<>> THEN r
    ELSE LET current   == IF r.depot # <<>> THEN r.depot[1] ELSE r.stops[1]
             remaining == IF r.depot # <<>> THEN r.stops ELSE remove(r.stops, 0)
         IN  [r EXCEPT !.stops = nearest_loop(remaining, current, <<>>)]

----------------------------------------------------------------------------
(* 2-opt *)

\* get_point of two_opt_swap_delta; idx_opt is an Option of an index
get_point(r, idx_opt) ==
    LET n == Len(r.stops)
    IN  IF idx_opt # <<>> /\ idx_opt[1] >= 0 /\ idx_opt[1] < n
        THEN <<r.stops[idx_opt[1] + 1].lat, r.stops[idx_opt[1] + 1].lon>>
        ELSE IF r.depot # <<>> THEN <<r.depot[1].lat, r.depot[1].lon>>
        ELSE IF n = 0 THEN <<0, 0>>
        ELSE <<r.stops[n].lat, r.stops[n].lon>>

two_opt_swap_delta(r, i, k) ==
    LET n     == Len(r.stops)
        a_idx == IF i = 0 THEN <<>> ELSE <<i - 1>>
        b_idx == <<i>>
        c_idx == <<k>>
        d_idx == IF k + 1 >= n THEN <<>> ELSE <<k + 1>>
        a     == get_point(r, a_idx)
        b     == get_point(r, b_idx)
        c     == get_point(r, c_idx)
        d     == get_point(r, d_idx)
        removed == haversine_meters(a[1], a[2], b[1], b[2])
                   + haversine_meters(c[1], c[2], d[1], d[2])
        added   == haversine_meters(a[1], a[2], c[1], c[2])
                   + haversine_meters(b[1], b[2], d[1], d[2])
    IN  added - removed

\* self.stops[i..=k].reverse()
do_two_opt_swap(r, i, k) ==
    LET reversed == [j \in 1..Len(r.stops) |->
                        IF j >= i + 1 /\ j <= k + 1
                        THEN r.stops[i + k + 2 - j]
                        ELSE r.stops[j]]
    IN  [r EXCEPT !.stops = SubSeq(reversed, 1, Len(r.stops))]

improves_or_ties(delta) == delta <= 0

\* `delta < -1e-6`: a delta of whole metres is below -1e-6 iff it is negative
improves(delta) == delta < 0

\* the body of the inner for loop at the pair (i, k): the route after it and
\* whether the swap was made
two_opt_pair(r, i, k) ==
    LET n == Len(r.stops)
    IN  IF k = n - 1 /\ i = 0 /\ r.depot = <<>>
        THEN [route |-> r, swapped |-> FALSE]
        ELSE IF improves(two_opt_swap_delta(r, i, k))
        THEN [route |-> do_two_opt_swap(r, i, k), swapped |-> TRUE]
        ELSE [route |-> r, swapped |-> FALSE]

RECURSIVE two_opt_sweep(_, _, _, _)
\* the two for loops from the pair (i, k) on: the route and `improved` at
\* the end of the sweep
two_opt_sweep(r, i, k, improved) ==
    LET n == Len(r.stops)
    IN  IF i >= n - 2 THEN [route |-> r, improved |-> improved]
        ELSE IF k >= n THEN two_opt_sweep(r, i + 1, i + 3, improved)
        ELSE LET p == two_opt_pair(r, i, k)
             IN  two_opt_sweep(p.route, i, k + 1, improved \/ p.swapped)

RECURSIVE two_opt_while(_)
\* `while improved`: sweeps until one makes no swap
two_opt_while(r) ==
    LET s == two_opt_sweep(r, 0, 2, FALSE)
    IN  IF s.improved THEN two_opt_while(s.route) ELSE s.route

two_opt(r) == IF Len(r.stops) < 3 THEN r ELSE two_opt_while(r)

optimize(r) ==
    IF r.stops = <<>> THEN r
    ELSE two_opt(build_nearest_neighbor(r))

----------------------------------------------------------------------------
(* RouteManager *)

\* RouteManager::new()
new == <<>>

add_route(rs, route) == Append(rs, route)

\* `iter_mut().find(|r| r.id == route_id)`: the 1-based place of the first
\* route with that id, 0 if there is none
find_route(rs, route_id) ==
    IF \E j \in 1..Len(rs) : rs[j].id = route_id
    THEN CHOOSE j \in 1..Len(rs) :
             /\ rs[j].id = route_id
             /\ \A h \in 1..(j - 1) : rs[h].id # route_id
    ELSE 0

add_stop_to_route(rs, route_id, stop) ==
    LET j == find_route(rs, route_id)
    IN  IF j # 0
        THEN [rs EXCEPT ![j].stops = Append(@, stop)]
        ELSE rs

\* `iter().position(|s| s.id == stop_id)`: the Option of the 0-based index
\* of the first stop with that id
position(stops, stop_id) ==
    IF \E j \in 1..Len(stops) : stops[j].id = stop_id
    THEN <<(CHOOSE j \in 1..Len(stops) :
               /\ stops[j].id = stop_id
               /\ \A h \in 1..(j - 1) : stops[h].id # stop_id) - 1>>
    ELSE <<>>

RECURSIVE remove_scan(_, _, _)
\* the for loop of remove_stop_by_id from route j on: the routes and the
\* Option<Stop> returned
remove_scan(rs, stop_id, j) ==
    IF j > Len(rs) THEN [routes |-> rs, ret |-> <<>>]
    ELSE LET pos == position(rs[j].stops, stop_id)
         IN  IF pos # <<>>
             THEN [routes |-> [rs EXCEPT ![j].stops = remove(@, pos[1])],
                   ret    |-> <<rs[j].stops[pos[1] + 1]>>]
             ELSE remove_scan(rs, stop_id, j + 1)

remove_stop_by_id_keeping(rs, stop_id) ==
    [routes |-> rs, ret |-> remove_scan(rs, stop_id, 1).ret]

remove_stop_by_id(rs, stop_id) == remove_scan(rs, stop_id, 1)

reassign_stop(rs, stop_id, target_route_id) ==
    LET removed == remove_stop_by_id(rs, stop_id)
    IN  IF removed.ret # <<>>
        THEN [routes |-> add_stop_to_route(removed.routes, target_route_id,
                                           removed.ret[1]),
              ret    |-> TRUE]
        ELSE [routes |-> removed.routes, ret |-> FALSE]

RECURSIVE optimize_from(_, _)
\* the for loop of optimize_all from route j on
optimize_from(rs, j) ==
    IF j > Len(rs) THEN rs
    ELSE optimize_from([rs EXCEPT ![j] = optimize(@)], j + 1)

optimize_all(rs) == optimize_from(rs, 1)

----------------------------------------------------------------------------
(* The record of the last call *)

Call(op, pre, stop_id, route_id, ret, prior) ==
    [op |-> op, pre |-> pre, stop_id |-> stop_id, route_id |-> route_id,
     ret |-> ret, prior |-> prior]

NoCall == Call("new", <<>>, 0, 0, <<>>, "new")

NoFrame == [pc |-> "idle", i |-> 0, k |-> 0, improved |-> FALSE]

----------------------------------------------------------------------------
(* RouteSpec: one route under build_nearest_neighbor, two_opt, optimize *)

RECURSIVE Orders(_)
\* every sequence of distinct elements of S
Orders(S) == {<<>>} \cup UNION {{<<x>> \o t : t \in Orders(S \ {x})} : x \in S}

\* the routes a caller can build from the sample stops 1..n: any of them, in
\* any order, each at most once, with or without the depot
RouteInputs(n) ==
    {[id |-> 1, stops |-> o, depot |-> d] :
        o \in Orders({SampleStop(id) : id \in 1..n}), d \in DepotChoices}

RouteInit ==
    /\ routes \in {<<r>> : r \in RouteInputs(NumStops)}
    /\ last = NoCall
    /\ frame = NoFrame

CallBuildNearestNeighbor ==
    /\ routes' = <<build_nearest_neighbor(routes[1])>>
    /\ last' = Call("build_nearest_neighbor", routes, 0, 0, <<>>, last.op)
    /\ UNCHANGED frame

CallTwoOpt ==
    /\ routes' = <<two_opt(routes[1])>>
    /\ last' = Call("two_opt", routes, 0, 0, <<>>, last.op)
    /\ UNCHANGED frame

CallOptimize ==
    /\ routes' = <<optimize(routes[1])>>
    /\ last' = Call("optimize", routes, 0, 0, <<>>, last.op)
    /\ UNCHANGED frame

RouteNext == CallBuildNearestNeighbor \/ CallTwoOpt \/ CallOptimize

RouteSpec == RouteInit /\ [][RouteNext]_vars

----------------------------------------------------------------------------
(* TwoOptSpec: one two_opt call, a loop step at a time.  frame.pc is the   *)
(* place in two_opt: "entry", "while" (the test of `while improved`),      *)
(* "for" (the inner loop body at the pair (i, k)), "done" (returned).      *)

TwoOptInit ==
    /\ routes \in {<<r>> : r \in RouteInputs(LoopStops)}
    /\ last = Call("two_opt", routes, 0, 0, <<>>, "new")
    /\ frame = [pc |-> "entry", i |-> 0, k |-> 0, improved |-> FALSE]

\* `if n < 3 { return; }` and `let mut improved = true;`
TwoOptEnter ==
    /\ frame.pc = "entry"
    /\ frame' = IF Len(routes[1].stops) < 3
                THEN [frame EXCEPT !.pc = "done"]
                ELSE [frame EXCEPT !.pc = "while", !.improved = TRUE]
    /\ UNCHANGED <<routes, last>>

\* `while improved { improved = false; for i in 0..n - 2 { for k in i + 2..n {`
TwoOptWhile ==
    /\ frame.pc = "while"
    /\ frame' = IF frame.improved
                THEN [pc |-> "for", i |-> 0, k |-> 2, improved |-> FALSE]
                ELSE [frame EXCEPT !.pc = "done"]
    /\ UNCHANGED <<routes, last>>

\* the inner loop body at (i, k), then the step to the next pair, or back to
\* the while test after the last pair
TwoOptPair ==
    /\ frame.pc = "for"
    /\ LET n == Len(routes[1].stops)
           p == two_opt_pair(routes[1], frame.i, frame.k)
           improved == frame.improved \/ p.swapped
       IN  /\ routes' = <<p.route>>
           /\ frame' = IF frame.k + 1 < n
                       THEN [pc |-> "for", i |-> frame.i, k |-> frame.k + 1,
                             improved |-> improved]
                       ELSE IF frame.i + 1 < n - 2
                       THEN [pc |-> "for", i |-> frame.i + 1, k |-> frame.i + 3,
                             improved |-> improved]
                       ELSE [pc |-> "while", i |-> frame.i, k |-> frame.k,
                             improved |-> improved]
    /\ UNCHANGED last

TwoOptNext == TwoOptEnter \/ TwoOptWhile \/ TwoOptPair

\* The call runs on: a function that has not returned takes its next step.
TwoOptSpec == TwoOptInit /\ [][TwoOptNext]_vars /\ WF_vars(TwoOptNext)

\* The stepwise loop and the operator two_opt are the same function.
TwoOptStepsAgree ==
    frame.pc = "done" => routes[1] = two_opt(last.pre[1])

----------------------------------------------------------------------------
(* Properties of one route (RouteSpec) *)

StopIds(stops) == {stops[j].id : j \in 1..Len(stops)}

Distance(a, b) == haversine_meters(a.lat, a.lon, b.lat, b.lon)

\* the route the last call was made on, and the route it left
Before == last.pre[1]
After == routes[1]

\* C1: build_nearest_neighbor and optimize only reorder the stops: the set of
\* stop ids and the number of stops after the call are those before it.
C1_OnlyReorders ==
    last.op \in {"build_nearest_neighbor", "optimize"} =>
        /\ StopIds(After.stops) = StopIds(Before.stops)
        /\ Len(After.stops) = Len(Before.stops)

\* C4: on a route of at least 3 stops, the total distance after two_opt is
\* at most the total distance before it.
C4_TwoOptNeverWorsens ==
    (last.op = "two_opt" /\ Len(Before.stops) >= 3) =>
        total_distance_meters(After) <= total_distance_meters(Before)

\* C7: an optimize right after an optimize leaves the total distance as the
\* first one left it.
C7_OptimizeIdempotent ==
    (last.op = "optimize" /\ last.prior = "optimize") =>
        total_distance_meters(After) = total_distance_meters(Before)

\* The same for the routes with a depot, which lose no stop to
\* build_nearest_neighbor; it fails for them as well, on a tie of the walk.
OptimizeIdempotentWithDepot ==
    (last.op = "optimize" /\ last.prior = "optimize" /\ After.depot # <<>>) =>
        total_distance_meters(After) = total_distance_meters(Before)

\* the pairs (i, k) two_opt considers on a route of n stops
TwoOptPairs(r) ==
    LET n == Len(r.stops)
    IN  {p \in (0..n - 3) \X (2..n - 1) :
            /\ p[1] + 2 <= p[2]
            /\ ~(p[1] = 0 /\ p[2] = n - 1 /\ r.depot = <<>>)}

\* C9: when two_opt returns on a route of at least 3 stops, reversing stops
\* i..k lowers the total distance for no pair (i, k) that two_opt considers
\* (whole metres: not lower by more than 1e-6 is not lower).
C9_LocalOptimum ==
    (last.op = "two_opt" /\ Len(After.stops) >= 3) =>
        \A p \in TwoOptPairs(After) :
            total_distance_meters(do_two_opt_swap(After, p[1], p[2]))
                >= total_distance_meters(After)

\* the start of the walk and the stops it chooses among
WalkStart(r) == IF r.depot # <<>> THEN r.depot[1] ELSE r.stops[1]
WalkPool(r) == IF r.depot # <<>> THEN r.stops ELSE Tail(r.stops)

\* the place of stop s in the original order
PlaceIn(pool, s) == CHOOSE j \in 1..Len(pool) : pool[j] = s

\* position j of the walk was a tie: a stop placed later was as near
TieAt(r, out, j) ==
    LET current == IF j = 1 THEN WalkStart(r) ELSE out[j - 1]
    IN  \E m \in (j + 1)..Len(out) :
            Distance(current, out[m]) = Distance(current, out[j])

\* C10: build_nearest_neighbor is the greedy walk.  From the depot, or else
\* from the first stop, each stop placed is nearest to the current position
\* among those not yet placed, and of several nearest ones the first in the
\* original order.
C10_GreedyWalk ==
    (last.op = "build_nearest_neighbor" /\ Before.stops # <<>>) =>
        LET pool == WalkPool(Before)
            out  == After.stops
        IN  /\ Len(out) = Len(pool)
            /\ StopIds(out) = StopIds(pool)
            /\ \A j \in 1..Len(out) : \A m \in (j + 1)..Len(out) :
                   LET current == IF j = 1 THEN WalkStart(Before) ELSE out[j - 1]
                       dj == Distance(current, out[j])
                       dm == Distance(current, out[m])
                   IN  \/ dj < dm
                       \/ dj = dm /\ PlaceIn(pool, out[j]) < PlaceIn(pool, out[m])

\* a walk over at least 3 stops that met a tie and changed the order
C10_Witness ==
    /\ last.op = "build_nearest_neighbor"
    /\ Len(After.stops) >= 3
    /\ \E j \in 1..Len(After.stops) : TieAt(Before, After.stops, j)
    /\ After.stops # WalkPool(Before)

----------------------------------------------------------------------------
(* Properties of the two_opt loop (TwoOptSpec) *)

\* C8: two_opt terminates: every call reaches its return.
C8_TwoOptTerminates == <>(frame.pc = "done")

\* The length that shrinks: the tour closed through the depot or, without a
\* depot, through the edge from the last stop back to the first (get_point
\* stands the last stop in for a missing neighbour).
ClosedTourMeters(r) ==
    IF r.depot # <<>> \/ r.stops = <<>> THEN total_distance_meters(r)
    ELSE total_distance_meters(r) + Distance(r.stops[Len(r.stops)], r.stops[1])

\* Every accepted swap makes the closed tour strictly shorter.
TwoOptShrinksClosedTour ==
    [][routes' # routes =>
          ClosedTourMeters(routes'[1]) < ClosedTourMeters(routes[1])]_vars

\* a call that has returned after at least one accepted swap
C8_Witness ==
    /\ frame.pc = "done"
    /\ Len(After.stops) >= 3
    /\ After.stops # Before.stops

----------------------------------------------------------------------------
(* Spec: the RouteManager under its operations *)

RECURSIVE HeldFrom(_, _)
HeldFrom(rs, j) == IF j > Len(rs) THEN 0 ELSE Len(rs[j].stops) + HeldFrom(rs, j + 1)

\* the number of stops the routes hold
Held(rs) == HeldFrom(rs, 1)

Init ==
    /\ routes = new
    /\ last = NoCall
    /\ frame = NoFrame

AddRoute ==
    /\ Len(routes) < MaxRoutes
    /\ \E id \in 1..MaxRoutes :
           /\ routes' = add_route(routes, Route(id, DepotOf(id)))
           /\ last' = Call("add_route", routes, 0, id, <<>>, "")
    /\ UNCHANGED frame

AddStopToRoute ==
    /\ Held(routes) < MaxHeld
    /\ \E route_id \in 1..MaxRoutes, id \in 1..MaxHeld :
           /\ routes' = add_stop_to_route(routes, route_id, SampleStop(id))
           /\ last' = Call("add_stop_to_route", routes, id, route_id, <<>>, "")
    /\ UNCHANGED frame

RemoveStopById ==
    /\ \E stop_id \in 1..MaxHeld :
           LET res == remove_stop_by_id(routes, stop_id)
           IN  /\ routes' = res.routes
               /\ last' = Call("remove_stop_by_id", routes, stop_id, 0, res.ret, "")
    /\ UNCHANGED frame

ReassignStop ==
    /\ \E stop_id \in 1..MaxHeld, target_route_id \in 1..MaxRoutes :
           LET res == reassign_stop(routes, stop_id, target_route_id)
           IN  /\ routes' = res.routes
               /\ last' = Call("reassign_stop", routes, stop_id, target_route_id,
                               res.ret, "")
    /\ UNCHANGED frame

OptimizeAll ==
    /\ routes' = optimize_all(routes)
    /\ last' = Call("optimize_all", routes, 0, 0, <<>>, "")
    /\ UNCHANGED frame

Next == AddRoute \/ AddStopToRoute \/ RemoveStopById \/ ReassignStop \/ OptimizeAll

Spec == Init /\ [][Next]_vars

----------------------------------------------------------------------------
(* Properties of the RouteManager (Spec) *)

\* the places of the routes that hold a stop with this id
HeldBy(rs, stop_id) == {j \in 1..Len(rs) : stop_id \in StopIds(rs[j].stops)}

IsHeld(rs, stop_id) == HeldBy(rs, stop_id) # {}

HasRoute(rs, route_id) == \E j \in 1..Len(rs) : rs[j].id = route_id

\* every stop id occurs at most once in all the routes' stops
Unique(rs) ==
    \A a, b \in 1..Len(rs) : \A x \in 1..Len(rs[a].stops), y \in 1..Len(rs[b].stops) :
        rs[a].stops[x].id = rs[b].stops[y].id => (a = b /\ x = y)

\* C2: reassign_stop to a route id that no route has leaves the stop held:
\* a stop held before the call is held after it.
C2_ReassignKeepsStop ==
    (/\ last.op = "reassign_stop"
     /\ ~HasRoute(last.pre, last.route_id)
     /\ IsHeld(last.pre, last.stop_id)) =>
        IsHeld(routes, last.stop_id)

\* C5: reassign_stop returns true only if the stop was held and is, after
\* the call, in the route with the target id; it returns false when the stop
\* id is unknown or no route has the target id.
C5_ReassignResult ==
    last.op = "reassign_stop" =>
        /\ last.ret = TRUE =>
               /\ IsHeld(last.pre, last.stop_id)
               /\ \E j \in 1..Len(routes) :
                      /\ routes[j].id = last.route_id
                      /\ last.stop_id \in StopIds(routes[j].stops)
        /\ (~IsHeld(last.pre, last.stop_id) \/ ~HasRoute(last.pre, last.route_id)) =>
               last.ret = FALSE

\* C6: add_route with the id of a route of the manager leaves the routes as
\* they were, so the route ids are pairwise distinct.
C6_RouteIdsDistinct ==
    /\ (last.op = "add_route" /\ HasRoute(last.pre, last.route_id)) =>
           routes = last.pre
    /\ \A a, b \in 1..Len(routes) : routes[a].id = routes[b].id => a = b

\* C3: remove_stop_by_id, reassign_stop, optimize_all, and add_stop_to_route
\* of a stop id that no route holds, keep every stop id in at most one place:
\* called on routes where that is so, they leave routes where it is so.
C3_StopsStayUnique ==
    (/\ last.op \in {"remove_stop_by_id", "reassign_stop", "optimize_all",
                     "add_stop_to_route"}
     /\ last.op = "add_stop_to_route" => ~IsHeld(last.pre, last.stop_id)
     /\ Unique(last.pre)) =>
        Unique(routes)

\* a stop moved from one route to another, next to a stop that stayed
C3_Witness ==
    /\ last.op = "reassign_stop"
    /\ last.ret = TRUE
    /\ Unique(last.pre)
    /\ Held(last.pre) >= 2
    /\ HeldBy(last.pre, last.stop_id) # {}
    /\ HeldBy(routes, last.stop_id) # {}
    /\ HeldBy(routes, last.stop_id) # HeldBy(last.pre, last.stop_id)

====
